---- MODULE Spec2Model ----
(***************************************************************************)
(* Device admission check of backendAppShop (src/server.js): the settings  *)
(* table, the devices table and the POST /api/device-check handler, whose   *)
(* awaits are the points where concurrent requests interleave; the          *)
(* connection module db.js (src/unnamed/part_001) with its retry chains,    *)
(* and the GET /api/health handler that consults it; the stylesheet loader  *)
(* of the pages (src/public/css/css-loader.js).                             *)
(***************************************************************************)
EXTENDS Integers, Sequences, FiniteSets, Bags, TLC

\* ------------------------------------------------------------------ bounds
NProcs == 2          \* handler invocations that can be in flight at once
NCustomers == 1      \* customer ids of the concurrent specification
NDevices == 2        \* device ids of the concurrent specification
MaxLimit == 2        \* largest max_devices posted in the concurrent specification
NSeqCustomers == 1   \* customer ids of the sequential specifications
NSeqDevices == 4     \* device ids of the sequential specifications
MaxSeqLimit == 3     \* largest max_devices of the sequential specifications
NScenarioDevices == 3  \* device ids of the sequential specification with settings posts
MaxClock == 1        \* values NOW() takes: 0..MaxClock
MaxChains == 2       \* initDbConnection chains followed at the same time
MaxTimers == 2       \* reconnection timers pending at the same time
MaxLinks == 3        \* link elements the loader appends
MaxSelectors == 2    \* selectors in one loadDynamicCSS call

CustomerIds == <<"cust_1", "cust_2", "cust_3", "cust_4">>
DeviceIds == <<"dA", "dB", "dC", "dD", "dE", "dF">>

Procs == 1..NProcs
SeqProcs == {1}      \* the invocation slot the sequential specifications use
Customers == {CustomerIds[i] : i \in 1..NCustomers}
Devices == {DeviceIds[i] : i \in 1..NDevices}
SeqCustomers == {CustomerIds[i] : i \in 1..NSeqCustomers}
SeqDevices == {DeviceIds[i] : i \in 1..NSeqDevices}
ScenarioCustomers == {CustomerIds[1]}
ScenarioDevices == {DeviceIds[i] : i \in 1..NScenarioDevices}

\* A field the JSON body does not carry (JavaScript undefined).
undefined == "undefined"
\* The configured message an administrator posts.
ConfiguredMessage == "Limite configurado."

\* ------------------------------------------------------------------ state
VARIABLES
  settings,      \* table settings: a sequence of rows, at most one (id = TRUE)
  devices,       \* table devices: a bag of rows (customer_id, device_id, last_seen)
  clock,         \* the value NOW() returns
  pc,            \* per invocation: the await the handler is suspended at
  req,           \* per invocation: req.body
  config,        \* per invocation: the rows read from settings
  dispositivos,  \* per invocation: the rows read from devices
  lastCall,      \* the device-check response the step just taken sent, with its request
  logged,        \* what the step just taken wrote with console.error ("" when nothing)
  hist,          \* the last two device-check responses (sequential specifications only)
  lastSettings,  \* the /api/settings response the step just taken sent (sequential specification only)
  hasUrl,        \* process.env.DATABASE_URL is set
  isConnected,   \* db.js: let isConnected
  exited,        \* process.exit(1) was called
  chains,        \* the initDbConnection chains: where each one is, and its retryCount
  timers,        \* setTimeout callbacks of onconnectionerror not yet run
  emitted,       \* the dbEvents event the step just taken emitted ("" when none)
  lastTestOk,    \* the most recent connection test succeeded, no connection error since
  health,        \* where the GET /api/health handler is
  lastHealth,    \* the /api/health response the step just taken sent
  loadedCSS,     \* css-loader.js: const loadedCSS
  head,          \* the link elements the loader appended to document.head, in order
  cssCall        \* the loader call the step just taken made

appVars == <<settings, devices, clock, pc, req, config, dispositivos, lastCall, logged, hist,
             lastSettings>>
dbVars == <<hasUrl, isConnected, exited, chains, timers, emitted, lastTestOk, health, lastHealth>>
cssVars == <<loadedCSS, head, cssCall>>
vars == <<settings, devices, clock, pc, req, config, dispositivos, lastCall, logged, hist,
          lastSettings, hasUrl, isConnected, exited, chains, timers, emitted, lastTestOk,
          health, lastHealth, loadedCSS, head, cssCall>>

\* ------------------------------------------------------------------ values
NoReq == [customer_id |-> undefined, device_id |-> undefined]
NoCall == [customer_id |-> undefined, device_id |-> undefined, status |-> 0, text |-> ""]
NoSettingsCall == [op |-> "", status |-> 0, max_devices |-> 0, block_message |-> "", error |-> ""]

\* res.status(status).json(..) of the request (customer_id, device_id)
Response(r, status, text) ==
  [customer_id |-> r.customer_id, device_id |-> r.device_id, status |-> status, text |-> text]

\* JavaScript truthiness of a string-or-undefined value: !x
Falsy(x) == x = undefined \/ x = ""

\* const maxDevices = config?.max_devices || 2;
DefaultMaxDevices == 2

\* The limit read from a field the row does not have (config?.maxDevices || 2).
maxDevicesOfWrongField(cfg) == DefaultMaxDevices

maxDevicesOf(cfg) ==
  IF cfg = <<>> \/ cfg[1].max_devices = 0 THEN DefaultMaxDevices ELSE cfg[1].max_devices

\* const blockMessage = config?.block_message || 'Limite de dispositivos atingido.';
DefaultBlockMessage == "Limite de dispositivos atingido."

\* The denial message with the default text of GET /api/settings (line 82).
blockMessageOfSettingsDefault(cfg) ==
  IF cfg = <<>> \/ Falsy(cfg[1].block_message)
    THEN "Você está logado em muitos dispositivos." ELSE cfg[1].block_message

blockMessageOf(cfg) ==
  IF cfg = <<>> \/ Falsy(cfg[1].block_message) THEN DefaultBlockMessage ELSE cfg[1].block_message

\* SELECT * FROM devices WHERE customer_id = ${customer_id}
SelectDevices(table, customer_id) ==
  LET keep == {r \in BagToSet(table) : r.customer_id = customer_id}
  IN  [r \in keep |-> table[r]]

\* The lookup comparing the wrong column (d.customer_id === device_id).
jaRegistradoWrongField(rows, device_id) == \E r \in BagToSet(rows) : r.customer_id = device_id

\* dispositivos.find(d => d.device_id === device_id)
jaRegistrado(rows, device_id) == \E r \in BagToSet(rows) : r.device_id = device_id

\* dispositivos.length
Length(rows) == BagCardinality(rows)

\* the rows of one (customer_id, device_id) pair
RowsOfPair(table, customer_id, device_id) ==
  LET keep == {r \in BagToSet(table) : r.customer_id = customer_id /\ r.device_id = device_id}
  IN  [r \in keep |-> table[r]]

\* INSERT INTO devices (customer_id, device_id, last_seen) VALUES (.., .., NOW())
InsertDevice(table, customer_id, device_id, now) ==
  table (+) SetToBag({[customer_id |-> customer_id, device_id |-> device_id, last_seen |-> now]})

\* UPDATE devices SET last_seen = NOW() WHERE customer_id = .. AND device_id = ..
UpdateLastSeen(table, customer_id, device_id, now) ==
  LET hit == RowsOfPair(table, customer_id, device_id)
      n == BagCardinality(hit)
      fresh == [customer_id |-> customer_id, device_id |-> device_id, last_seen |-> now]
  IN  IF n = 0 THEN table
      ELSE (table (-) hit) (+) [r \in {fresh} |-> n]

\* INSERT INTO settings (id, ..) VALUES (TRUE, ..) ON CONFLICT (id) DO UPDATE SET ..
\* The INSERT without its ON CONFLICT clause, on a table that accepts the row.
UpsertSettingsAppend(table, max_devices, block_message) ==
  Append(table, [max_devices |-> max_devices, block_message |-> block_message])

UpsertSettings(table, max_devices, block_message) ==
  <<[max_devices |-> max_devices, block_message |-> block_message]>>

\* ------------------------------------------------------------------ initial state

Chains == 1..MaxChains
FreeChain == [pc |-> "free", retryCount |-> 0, delay |-> 0, caller |-> ""]
NoHealth == [status |-> 0, state |-> "", database |-> ""]

\* db.js after a first chain has connected: no chain, no timer.
DbConnected ==
  /\ hasUrl = TRUE
  /\ isConnected = TRUE
  /\ exited = FALSE
  /\ chains = [c \in Chains |-> FreeChain]
  /\ timers = 0
  /\ emitted = ""
  /\ lastTestOk = TRUE
  /\ health = "idle"
  /\ lastHealth = NoHealth

\* db.js as line 141 is about to call initConnection(), DATABASE_URL set or not.
DbStart ==
  /\ hasUrl \in BOOLEAN
  /\ isConnected = FALSE
  /\ exited = FALSE
  /\ chains = [c \in Chains |-> IF c = 1 THEN [FreeChain EXCEPT !.pc = "start"] ELSE FreeChain]
  /\ timers = 0
  /\ emitted = ""
  /\ lastTestOk = FALSE
  /\ health = "idle"
  /\ lastHealth = NoHealth

AppInit ==
  /\ settings = <<>>
  /\ devices = EmptyBag
  /\ clock = 0
  /\ pc = [p \in Procs |-> "idle"]
  /\ req = [p \in Procs |-> NoReq]
  /\ config = [p \in Procs |-> <<>>]
  /\ dispositivos = [p \in Procs |-> EmptyBag]
  /\ lastCall = NoCall
  /\ logged = ""
  /\ hist = <<NoCall, NoCall>>
  /\ lastSettings = NoSettingsCall

NoCssCall == [fn |-> "", href |-> "", given |-> FALSE, list |-> <<>>]

\* css-loader.js, line 4: nothing loaded, no link appended by the loader.
CssInit ==
  /\ loadedCSS = {}
  /\ head = <<>>
  /\ cssCall = NoCssCall

\* The request handlers are followed with the connection established.
Init == AppInit /\ DbConnected /\ CssInit

\* ------------------------------------------------------------------ POST /api/device-check
\* The handler invocation ends: its response is sent, its locals are gone.
Respond(p, r, status, text) ==
  /\ lastCall' = Response(r, status, text)
  /\ pc' = [pc EXCEPT ![p] = "idle"]
  /\ req' = [req EXCEPT ![p] = NoReq]
  /\ config' = [config EXCEPT ![p] = <<>>]
  /\ dispositivos' = [dispositivos EXCEPT ![p] = EmptyBag]

\* if (!customer_id || !device_id)
Invalid(customer_id, device_id) == Falsy(customer_id) \/ Falsy(device_id)

\* Lines 113-121 and 169-172: the body is destructured and validated and the
\* settings query is issued. With req.body undefined (has_body false: no body
\* was parsed) the destructuring of line 113 throws and the outer catch logs
\* and answers 500.
Validate(p, has_body, customer_id, device_id) ==
  /\ pc[p] = "idle"
  /\ IF ~has_body
       THEN /\ Respond(p, NoReq, 500, "Erro interno do servidor")
            /\ logged' = "Unexpected error in device-check:"
       ELSE /\ LET r == [customer_id |-> customer_id, device_id |-> device_id]
               IN  IF Invalid(customer_id, device_id)
                     THEN Respond(p, r, 400, "Faltando customer_id ou device_id")
                     ELSE /\ req' = [req EXCEPT ![p] = r]
                          /\ pc' = [pc EXCEPT ![p] = "settings"]
                          /\ lastCall' = NoCall
                          /\ UNCHANGED <<config, dispositivos>>
            /\ logged' = ""
  /\ UNCHANGED <<settings, devices, clock>>

\* The settings rows kept when the query result is not destructured
\* (config = await sql`..`): config.max_devices is then undefined.
SettingsReadNotDestructured(table, ok) == <<>>

\* [config] = await sql`SELECT * FROM settings LIMIT 1`, config = null when it throws
SettingsRead(table, ok) == IF ok THEN table ELSE <<>>

\* The settings query with a failure that ends the call, as the devices query does.
ReadSettingsFatal(p, ok) ==
  /\ pc[p] = "settings"
  /\ IF ok
       THEN /\ config' = [config EXCEPT ![p] = SettingsRead(settings, ok)]
            /\ pc' = [pc EXCEPT ![p] = "devices"]
            /\ lastCall' = NoCall
            /\ logged' = ""
            /\ UNCHANGED <<req, dispositivos>>
       ELSE /\ Respond(p, req[p], 500, "Erro ao buscar configurações")
            /\ logged' = "Error fetching settings:"
  /\ UNCHANGED <<settings, devices, clock>>

\* Lines 120-134: the settings query returns (or throws) and the devices query
\* is issued.
ReadSettings(p, ok) ==
  /\ pc[p] = "settings"
  /\ config' = [config EXCEPT ![p] = SettingsRead(settings, ok)]
  /\ logged' = IF ok THEN "" ELSE "Error fetching settings:"
  /\ pc' = [pc EXCEPT ![p] = "devices"]
  /\ lastCall' = NoCall
  /\ UNCHANGED <<settings, devices, clock, req, dispositivos>>

\* The devices query with a failure that falls back to no rows, as the settings
\* query falls back to defaults.
ReadDevicesFallback(p, ok) ==
  /\ pc[p] = "devices"
  /\ dispositivos' = [dispositivos EXCEPT ![p] =
                        IF ok THEN SelectDevices(devices, req[p].customer_id) ELSE EmptyBag]
  /\ logged' = IF ok THEN "" ELSE "Error fetching devices:"
  /\ pc' = [pc EXCEPT ![p] = "write"]
  /\ lastCall' = NoCall
  /\ UNCHANGED <<settings, devices, clock, req, config>>

\* Lines 131-138: the devices query returns the customer's rows, or throws (500).
ReadDevices(p, ok) ==
  /\ pc[p] = "devices"
  /\ IF ok
       THEN /\ dispositivos' = [dispositivos EXCEPT ![p] = SelectDevices(devices, req[p].customer_id)]
            /\ pc' = [pc EXCEPT ![p] = "write"]
            /\ lastCall' = NoCall
            /\ logged' = ""
            /\ UNCHANGED <<req, config>>
       ELSE /\ Respond(p, req[p], 500, "Erro ao verificar dispositivos")
            /\ logged' = "Error fetching devices:"
  /\ UNCHANGED <<settings, devices, clock>>

\* The limit test with > for >=.
LimitReachedOffByOne(rows, maxDevices) == Length(rows) > maxDevices

\* if (dispositivos.length >= maxDevices)
LimitReached(rows, maxDevices) == Length(rows) >= maxDevices

\* The branches of lines 140-168 with the limit tested before the registered device.
DecisionLimitFirst(rows, device_id, maxDevices) ==
  IF LimitReached(rows, maxDevices) THEN "denied"
  ELSE IF jaRegistrado(rows, device_id) THEN "already" ELSE "register"

\* Lines 140-157: which branch the handler takes on the rows it read.
Decision(rows, device_id, maxDevices) ==
  IF jaRegistrado(rows, device_id) THEN "already"
  ELSE IF LimitReached(rows, maxDevices) THEN "denied" ELSE "register"

\* The response after the UPDATE with a failure that fails the call.
AlreadyStatusFailing(ok) == IF ok THEN 200 ELSE 500

\* Lines 147 and 151: the status sent after the UPDATE, whether or not it threw.
AlreadyStatus(ok) == 200

\* Lines 140-168 for the device rows `rows`: the branch taken and the UPDATE or
\* INSERT it issues (ok: the statement succeeds; otherwise it throws).
DecideOn(p, ok, rows) ==
  /\ pc[p] = "write"
  /\ LET customer_id == req[p].customer_id
         device_id == req[p].device_id
         maxDevices == maxDevicesOf(config[p])
         blockMessage == blockMessageOf(config[p])
         branch == Decision(rows, device_id, maxDevices)
     IN  CASE branch = "already" ->
                /\ devices' = IF ok THEN UpdateLastSeen(devices, customer_id, device_id, clock)
                                    ELSE devices
                /\ Respond(p, req[p], AlreadyStatus(ok), "Dispositivo já registrado")
                /\ logged' = IF ok THEN "" ELSE "Error updating device last_seen:"
           [] branch = "denied" ->
                /\ ok
                /\ devices' = devices
                /\ Respond(p, req[p], 403, blockMessage)
                /\ logged' = ""
           [] branch = "register" ->
                IF ok
                  THEN /\ devices' = InsertDevice(devices, customer_id, device_id, clock)
                       /\ Respond(p, req[p], 200, "Dispositivo registrado")
                       /\ logged' = ""
                  ELSE /\ devices' = devices
                       /\ Respond(p, req[p], 500, "Erro ao registrar dispositivo")
                       /\ logged' = "Error registering device:"
  /\ UNCHANGED <<settings, clock>>

\* The decision taken on the rows the table holds when the statement runs (a
\* check and insert in one transaction).
DecideOnCurrentRows(p, ok) == DecideOn(p, ok, SelectDevices(devices, req[p].customer_id))

\* Lines 140-168: the handler resumes with the rows it read at line 132.
Decide(p, ok) == DecideOn(p, ok, dispositivos[p])

\* ------------------------------------------------------------------ POST /api/settings
\* Lines 91-94, 104 and 107: what POST /api/settings answers; the request's
\* values are kept with the response. With req.body undefined (has_body false)
\* the destructuring of line 91 throws and the catch answers 500.
PostSettingsResponse(has_body, has_max, max_devices, block_message, ok) ==
  [op |-> "POST",
   status |-> IF ~has_body THEN 500
              ELSE IF ~has_max \/ Falsy(block_message) THEN 400
              ELSE IF ok THEN 200 ELSE 500,
   max_devices |-> max_devices,
   block_message |-> block_message,
   error |-> IF ~has_body THEN "Erro ao atualizar configurações"
             ELSE IF ~has_max \/ Falsy(block_message)
               THEN "max_devices e block_message são obrigatórios"
             ELSE IF ok THEN "" ELSE "Erro ao atualizar configurações"]

\* Line 82: the body sent when the table has no row.
SettingsDefault ==
  [max_devices |-> 2, block_message |-> "Você está logado em muitos dispositivos."]

\* Line 82: config || { .. } for the rows the query returned.
GetSettingsBody(rows) == IF rows = <<>> THEN SettingsDefault ELSE rows[1]

\* Lines 79-87: GET /api/settings, one query and its response.
GetSettings(ok) ==
  /\ lastSettings' =
       IF ok
         THEN [op |-> "GET", status |-> 200,
               max_devices |-> GetSettingsBody(settings).max_devices,
               block_message |-> GetSettingsBody(settings).block_message,
               error |-> ""]
         ELSE [op |-> "GET", status |-> 500, max_devices |-> 0, block_message |-> "",
               error |-> "Erro ao buscar configurações"]
  /\ logged' = IF ok THEN "" ELSE "Error fetching settings:"
  /\ lastCall' = NoCall
  /\ UNCHANGED <<settings, devices, clock, pc, req, config, dispositivos>>

\* Lines 89-109: has_body is FALSE when req.body is undefined, has_max when
\* the body carries no max_devices; ok says whether the upsert, when one is
\* issued, succeeds. A body that cannot be destructured (line 91) or an upsert
\* that throws ends in the catch of lines 105-108.
PostSettings(has_body, has_max, max_devices, block_message, ok) ==
  /\ IF ~has_body
       THEN /\ UNCHANGED settings
            /\ logged' = "Error updating settings:"
       ELSE IF ~has_max \/ Falsy(block_message)
         THEN /\ UNCHANGED settings
              /\ logged' = ""
         ELSE IF ok
           THEN /\ settings' = UpsertSettings(settings, max_devices, block_message)
                /\ logged' = ""
           ELSE /\ UNCHANGED settings
                /\ logged' = "Error updating settings:"
  /\ lastCall' = NoCall
  /\ UNCHANGED <<devices, clock, pc, req, config, dispositivos>>

\* Time passes: NOW() grows.
Tick ==
  /\ clock < MaxClock
  /\ clock' = clock + 1
  /\ lastCall' = NoCall
  /\ logged' = ""
  /\ UNCHANGED <<settings, devices, pc, req, config, dispositivos>>

\* ------------------------------------------------------------------ db.js: the connection

MAX_RETRIES == 5
RETRY_DELAY_MS == 3000

\* The delay with no back-off.
RetryDelayFlat(retryCount) == RETRY_DELAY_MS

\* Lines 85-87: the delay before the retry that follows attempt retryCount.
RetryDelay(retryCount) == RETRY_DELAY_MS * (retryCount + 1)

\* The chains that have not ended.
InProgress == {c \in Chains : chains[c].pc \in {"query", "wait"}}
FreeSlot == CHOOSE c \in Chains : chains[c].pc = "free"
HasFreeSlot == \E c \in Chains : chains[c].pc = "free"

\* A client exists, so one can report a connection error, and server.js runs.
Started == chains[1].pc # "start"

\* Lines 36-76: initDbConnection(retryCount) up to its first await: exit when
\* DATABASE_URL is not set, else a new client and its test query issued.
Call(c, retryCount, caller) ==
  IF hasUrl
    THEN /\ chains' = [chains EXCEPT ![c] = [pc |-> "query", retryCount |-> retryCount,
                                             delay |-> 0, caller |-> caller]]
         /\ UNCHANGED exited
    ELSE /\ exited' = TRUE
         /\ UNCHANGED chains

\* Lines 131-141: the module calls initConnection().
InitConnection ==
  /\ ~exited
  /\ chains[1].pc = "start"
  /\ Call(1, 0, "init")
  /\ emitted' = ""
  /\ lastHealth' = NoHealth
  /\ UNCHANGED <<hasUrl, isConnected, timers, lastTestOk, health>>

\* Lines 76-127: the test query of chain c resolves (ok) or rejects. On success
\* isConnected is set, 'connected' is emitted and the chain returns to its
\* caller; a health handler awaiting it answers 'recovered' (server.js, lines
\* 37-44). On failure the chain waits for a retry, or exits the process when
\* retryCount has reached MAX_RETRIES.
TestQuery(c, ok) ==
  /\ ~exited
  /\ chains[c].pc = "query"
  /\ IF ok
       THEN /\ isConnected' = TRUE
            /\ emitted' = "connected"
            /\ lastTestOk' = TRUE
            /\ chains' = [chains EXCEPT ![c] = FreeChain]
            /\ IF chains[c].caller = "health"
                 THEN /\ health' = "idle"
                      /\ lastHealth' = [status |-> 200, state |-> "recovered",
                                        database |-> "reconnected"]
                 ELSE /\ lastHealth' = NoHealth
                      /\ UNCHANGED health
            /\ UNCHANGED exited
       ELSE /\ lastTestOk' = FALSE
            /\ emitted' = ""
            /\ lastHealth' = NoHealth
            /\ UNCHANGED <<isConnected, health>>
            /\ IF chains[c].retryCount < MAX_RETRIES
                 THEN /\ chains' = [chains EXCEPT ![c].pc = "wait",
                                                  ![c].delay = RetryDelay(chains[c].retryCount)]
                      /\ UNCHANGED exited
                 ELSE /\ exited' = TRUE
                      /\ UNCHANGED chains
  /\ UNCHANGED <<hasUrl, timers>>

\* Lines 94-95: the delay has passed, initDbConnection(nextRetry) is called.
Retry(c) ==
  /\ ~exited
  /\ chains[c].pc = "wait"
  /\ Call(c, chains[c].retryCount + 1, chains[c].caller)
  /\ emitted' = ""
  /\ lastHealth' = NoHealth
  /\ UNCHANGED <<hasUrl, isConnected, timers, lastTestOk, health>>

\* Lines 49-62: a client reports a connection error.
ConnectionError ==
  /\ ~exited
  /\ Started
  /\ timers < MaxTimers
  /\ isConnected' = FALSE
  /\ emitted' = "disconnected"
  /\ timers' = timers + 1
  /\ lastTestOk' = FALSE
  /\ lastHealth' = NoHealth
  /\ UNCHANGED <<hasUrl, exited, chains, health>>

\* Lines 58-62: RETRY_DELAY_MS after a connection error the callback runs and
\* calls initConnection() unless isConnected is true.
ReconnectTimer ==
  /\ ~exited
  /\ timers > 0
  /\ timers' = timers - 1
  /\ IF ~isConnected
       THEN HasFreeSlot /\ Call(FreeSlot, 0, "init")
       ELSE UNCHANGED <<exited, chains>>
  /\ emitted' = ""
  /\ lastHealth' = NoHealth
  /\ UNCHANGED <<hasUrl, isConnected, lastTestOk, health>>

\* ------------------------------------------------------------------ GET /api/health

\* server.js, lines 28-58, and db.js, lines 155-160: the handler reads
\* isDatabaseConnected(); disconnected, it answers 503 or, with
\* reconnect=true, awaits reconnectDatabase(); connected, it issues its query.
HealthCheck(reconnect) ==
  /\ ~exited
  /\ Started
  /\ health = "idle"
  /\ IF ~isConnected
       THEN IF reconnect
              THEN /\ HasFreeSlot
                   /\ Call(FreeSlot, 0, "health")
                   /\ health' = "reconnect"
                   /\ lastHealth' = NoHealth
              ELSE /\ lastHealth' = [status |-> 503, state |-> "unhealthy",
                                     database |-> "disconnected"]
                   /\ UNCHANGED <<exited, chains, health>>
       ELSE /\ health' = "query"
            /\ lastHealth' = NoHealth
            /\ UNCHANGED <<exited, chains>>
  /\ emitted' = ""
  /\ UNCHANGED <<hasUrl, isConnected, timers, lastTestOk>>

\* server.js, lines 60-76: the handler's SELECT 1 resolves or rejects.
HealthQuery(ok) ==
  /\ ~exited
  /\ health = "query"
  /\ health' = "idle"
  /\ lastHealth' = IF ok
                     THEN [status |-> 200, state |-> "healthy", database |-> "connected"]
                     ELSE [status |-> 503, state |-> "unhealthy", database |-> "error"]
  /\ emitted' = ""
  /\ UNCHANGED <<hasUrl, isConnected, exited, chains, timers, lastTestOk>>

\* ------------------------------------------------------------------ css-loader.js

\* The hrefs loadCSS is called with directly (lines 38 and 53).
ChunkHrefs == {"/css/non-critical.css", "/css/chunk-hero.css"}
Selectors == {".a", ".b"}

\* The arguments loadDynamicCSS receives: no argument, or a list of selectors.
SelectorLists ==
  {[given |-> FALSE, list |-> <<>>]}
    \cup {[given |-> TRUE, list |-> l] :
            l \in UNION {[1..n -> Selectors] : n \in 0..MaxSelectors}}

\* Line 29: selectors.join(',')
RECURSIVE Join(_)
Join(list) ==
  IF Len(list) = 0 THEN ""
  ELSE IF Len(list) = 1 THEN list[1]
  ELSE list[1] \o "," \o Join(Tail(list))

\* Line 30: the href of the bundle for a list of selectors.
CacheKey(list) == "/css/dynamic-bundle?selectors=" \o Join(list)

\* Lines 11-14: the link element loadCSS creates.
NewLink(href) == [href |-> href, media |-> "print", loaded |-> FALSE]

\* loadCSS that does not consult loadedCSS.
LoadedUntracked(tracked, href) == FALSE

\* Line 8: loadedCSS.has(href)
Loaded(tracked, href) == href \in tracked

\* Lines 7-23: loadCSS(href), the effect on loadedCSS and document.head.
loadCSS(href) ==
  IF Loaded(loadedCSS, href)
    THEN UNCHANGED <<loadedCSS, head>>
    ELSE /\ Len(head) < MaxLinks
         /\ loadedCSS' = loadedCSS \cup {href}
         /\ head' = Append(head, NewLink(href))

\* A call of loadCSS from outside the loader's own functions.
LoadCSS(href) ==
  /\ loadCSS(href)
  /\ cssCall' = [fn |-> "loadCSS", href |-> href, given |-> TRUE, list |-> <<>>]

\* Lines 26-33: loadDynamicCSS(selectors).
LoadDynamicCSS(selectors) ==
  /\ IF ~selectors.given \/ Len(selectors.list) = 0
       THEN UNCHANGED <<loadedCSS, head>>
       ELSE loadCSS(CacheKey(selectors.list))
  /\ cssCall' = [fn |-> "loadDynamicCSS", href |-> "", given |-> selectors.given,
                 list |-> selectors.list]

\* Lines 18-20: the load event of link i fires and its handler runs.
LinkLoad(i) ==
  /\ ~head[i].loaded
  /\ head' = [head EXCEPT ![i].loaded = TRUE, ![i].media = "all"]
  /\ cssCall' = NoCssCall
  /\ UNCHANGED loadedCSS

\* ------------------------------------------------------------------ specifications
IdInputs(ids) == ids \cup {"", undefined}
MessageInputs == {ConfiguredMessage, "", undefined}

\* The bodies POST /api/settings receives, max_devices in lo..hi or absent, or
\* no body at all.
PostBodies(lo, hi) ==
  {[has_body |-> TRUE, has_max |-> TRUE, max_devices |-> m, block_message |-> b] :
     m \in lo..hi, b \in MessageInputs}
    \cup {[has_body |-> TRUE, has_max |-> FALSE, max_devices |-> 0, block_message |-> b] :
             b \in MessageInputs}
    \cup {[has_body |-> FALSE, has_max |-> FALSE, max_devices |-> 0, block_message |-> undefined]}

\* No other handler invocation is in flight.
Alone(p) == \A q \in Procs \ {p} : pc[q] = "idle"
AllIdle == \A q \in Procs : pc[q] = "idle"

\* hist follows the responses sent.
Record == hist' = IF lastCall' # NoCall THEN <<hist[2], lastCall'>> ELSE hist

\* The step sends no /api/settings response.
NoSettingsResponse == lastSettings' = NoSettingsCall

\* Concurrent requests; every database statement may fail.
Next ==
  \/ \E p \in Procs, has_body \in BOOLEAN, c \in IdInputs(Customers), d \in IdInputs(Devices) :
        Validate(p, has_body, c, d) /\ UNCHANGED <<hist, lastSettings>> /\ UNCHANGED <<dbVars, cssVars>>
  \/ \E p \in Procs, ok \in BOOLEAN : ReadSettings(p, ok) /\ UNCHANGED <<hist, lastSettings>> /\ UNCHANGED <<dbVars, cssVars>>
  \/ \E p \in Procs, ok \in BOOLEAN : ReadDevices(p, ok) /\ UNCHANGED <<hist, lastSettings>> /\ UNCHANGED <<dbVars, cssVars>>
  \/ \E p \in Procs, ok \in BOOLEAN : Decide(p, ok) /\ UNCHANGED <<hist, lastSettings>> /\ UNCHANGED <<dbVars, cssVars>>
  \/ \E b \in PostBodies(0, MaxLimit), ok \in BOOLEAN :
        PostSettings(b.has_body, b.has_max, b.max_devices, b.block_message, ok) /\ UNCHANGED <<hist, lastSettings>> /\ UNCHANGED <<dbVars, cssVars>>
  \/ Tick /\ UNCHANGED <<hist, lastSettings>> /\ UNCHANGED <<dbVars, cssVars>>

Spec == Init /\ [][Next]_vars

\* Requests one at a time, no database failure in device-check, the settings
\* posted and read between calls.
NextSeq ==
  \/ \E p \in SeqProcs, c \in ScenarioCustomers, d \in ScenarioDevices :
        Alone(p) /\ Validate(p, TRUE, c, d) /\ Record /\ NoSettingsResponse /\ UNCHANGED <<dbVars, cssVars>>
  \/ \E p \in SeqProcs : ReadSettings(p, TRUE) /\ Record /\ NoSettingsResponse /\ UNCHANGED <<dbVars, cssVars>>
  \/ \E p \in SeqProcs : ReadDevices(p, TRUE) /\ Record /\ NoSettingsResponse /\ UNCHANGED <<dbVars, cssVars>>
  \/ \E p \in SeqProcs : Decide(p, TRUE) /\ Record /\ NoSettingsResponse /\ UNCHANGED <<dbVars, cssVars>>
  \/ \E b \in PostBodies(-1, MaxSeqLimit), ok \in BOOLEAN :
        /\ AllIdle
        /\ PostSettings(b.has_body, b.has_max, b.max_devices, b.block_message, ok)
        /\ lastSettings' = PostSettingsResponse(b.has_body, b.has_max, b.max_devices, b.block_message, ok)
        /\ Record
        /\ UNCHANGED <<dbVars, cssVars>>
  \/ \E ok \in BOOLEAN : AllIdle /\ GetSettings(ok) /\ Record /\ UNCHANGED <<dbVars, cssVars>>

SpecSeq == Init /\ [][NextSeq]_vars

\* Requests one at a time, no database failure, the settings fixed: no row, or
\* one row with a positive max_devices.
InitFixed ==
  /\ settings \in {<<>>} \cup
        {<<[max_devices |-> n, block_message |-> ConfiguredMessage]>> : n \in 1..MaxSeqLimit}
  /\ devices = EmptyBag
  /\ clock = 0
  /\ pc = [p \in Procs |-> "idle"]
  /\ req = [p \in Procs |-> NoReq]
  /\ config = [p \in Procs |-> <<>>]
  /\ dispositivos = [p \in Procs |-> EmptyBag]
  /\ lastCall = NoCall
  /\ logged = ""
  /\ hist = <<NoCall, NoCall>>
  /\ lastSettings = NoSettingsCall
  /\ DbConnected
  /\ CssInit

NextFixed ==
  \/ \E p \in SeqProcs, has_body \in BOOLEAN, c \in IdInputs(SeqCustomers),
        d \in IdInputs(SeqDevices) :
        Alone(p) /\ Validate(p, has_body, c, d) /\ UNCHANGED <<hist, lastSettings>> /\ UNCHANGED <<dbVars, cssVars>>
  \/ \E p \in SeqProcs : ReadSettings(p, TRUE) /\ UNCHANGED <<hist, lastSettings>> /\ UNCHANGED <<dbVars, cssVars>>
  \/ \E p \in SeqProcs : ReadDevices(p, TRUE) /\ UNCHANGED <<hist, lastSettings>> /\ UNCHANGED <<dbVars, cssVars>>
  \/ \E p \in SeqProcs : Decide(p, TRUE) /\ UNCHANGED <<hist, lastSettings>> /\ UNCHANGED <<dbVars, cssVars>>

SpecFixed == InitFixed /\ [][NextFixed]_vars

\* db.js and the health handler: the module starts its first chain, clients
\* report connection errors, health requests arrive one at a time.
InitDb == AppInit /\ DbStart /\ CssInit

NextDb ==
  \/ InitConnection /\ UNCHANGED <<appVars, cssVars>>
  \/ \E c \in Chains, ok \in BOOLEAN : TestQuery(c, ok) /\ UNCHANGED <<appVars, cssVars>>
  \/ \E c \in Chains : Retry(c) /\ UNCHANGED <<appVars, cssVars>>
  \/ ConnectionError /\ UNCHANGED <<appVars, cssVars>>
  \/ ReconnectTimer /\ UNCHANGED <<appVars, cssVars>>
  \/ \E reconnect \in BOOLEAN : HealthCheck(reconnect) /\ UNCHANGED <<appVars, cssVars>>
  \/ \E ok \in BOOLEAN : HealthQuery(ok) /\ UNCHANGED <<appVars, cssVars>>

SpecDb == InitDb /\ [][NextDb]_vars

\* Every test query settles, every timer runs, the health query settles.
FairDb ==
  /\ WF_vars(InitConnection /\ UNCHANGED <<appVars, cssVars>>)
  /\ \A c \in Chains : WF_vars((\E ok \in BOOLEAN : TestQuery(c, ok)) /\ UNCHANGED <<appVars, cssVars>>)
  /\ \A c \in Chains : WF_vars(Retry(c) /\ UNCHANGED <<appVars, cssVars>>)
  /\ WF_vars(ReconnectTimer /\ UNCHANGED <<appVars, cssVars>>)
  /\ WF_vars((\E ok \in BOOLEAN : HealthQuery(ok)) /\ UNCHANGED <<appVars, cssVars>>)

SpecDbFair == SpecDb /\ FairDb

\* css-loader.js: calls of loadCSS and loadDynamicCSS in any order, the load
\* events of the appended links in between.
InitCss == AppInit /\ DbConnected /\ CssInit

NextCss ==
  \/ \E href \in ChunkHrefs : LoadCSS(href) /\ UNCHANGED <<appVars, dbVars>>
  \/ \E selectors \in SelectorLists : LoadDynamicCSS(selectors) /\ UNCHANGED <<appVars, dbVars>>
  \/ \E i \in 1..Len(head) : LinkLoad(i) /\ UNCHANGED <<appVars, dbVars>>

SpecCss == InitCss /\ [][NextCss]_vars

\* ------------------------------------------------------------------ properties
\* The device ids registered for a customer, and the number of its rows.
RegisteredIn(table, c) == {r.device_id : r \in {x \in BagToSet(table) : x.customer_id = c}}
RowCountIn(table, c) == BagCardinality(SelectDevices(table, c))

\* The handler invocation p ends with this step by its decision on the device rows.
Decides(p) == pc[p] = "write" /\ pc'[p] = "idle"

\* The largest limit any settings value of the concurrent specification gives.
LargestLimit == IF MaxLimit > DefaultMaxDevices THEN MaxLimit ELSE DefaultMaxDevices

\* C1 as stated: for every customer, whenever no device-check call for it is
\* between its read of the device set and its insert, the number of distinct
\* registered device ids is at most the effective max_devices.
C1_CountWithinLimitWhenQuiet ==
  \A c \in Customers :
    (~ \E p \in Procs : pc[p] = "write" /\ req[p].customer_id = c)
      => Cardinality(RegisteredIn(devices, c)) <= maxDevicesOf(settings)

\* C1 amended: for every customer, the number of registered device rows never
\* exceeds the largest limit ever in force plus the number of calls that can be
\* in flight at once, minus one.
C1_CountWithinLimitPlusRacers ==
  \A c \in Customers : RowCountIn(devices, c) <= LargestLimit + NProcs - 1

\* The bound of C1 amended is attained.
C1_Witness ==
  \E c \in Customers : RowCountIn(devices, c) = LargestLimit + NProcs - 1

\* C2: with a settings row max_devices = N > 0 that stays fixed, calls one at a
\* time and no failure, a device id not yet registered is registered with 200
\* 'Dispositivo registrado' while fewer than N are registered, and is denied with
\* 403 and not registered once N are; no customer ever has more than N rows.
C2_FirstNThenDenied ==
  /\ [](settings # <<>> => \A c \in SeqCustomers : RowCountIn(devices, c) <= settings[1].max_devices)
  /\ [][\A p \in Procs :
          (Decides(p) /\ settings # <<>>) =>
            LET c == req[p].customer_id
                d == req[p].device_id
                N == settings[1].max_devices
                known == RegisteredIn(devices, c)
            IN  d \notin known =>
                  IF Cardinality(known) < N
                    THEN /\ lastCall' = Response(req[p], 200, "Dispositivo registrado")
                         /\ RegisteredIn(devices', c) = known \cup {d}
                         /\ RowCountIn(devices', c) = Cardinality(known) + 1
                    ELSE /\ lastCall'.status = 403
                         /\ devices' = devices]_vars

\* The (N+1)th distinct device id was just denied, N = MaxSeqLimit.
C2_Witness ==
  /\ settings # <<>>
  /\ settings[1].max_devices = MaxSeqLimit
  /\ lastCall.status = 403
  /\ Cardinality(RegisteredIn(devices, lastCall.customer_id)) = MaxSeqLimit
  /\ lastCall.device_id \notin RegisteredIn(devices, lastCall.customer_id)

\* C3: a call decides on the rows it read: when its device was not among them
\* and their count was below its limit, it inserts (or fails on the insert)
\* whatever the table holds by then, so that a second call that read
\* max_devices - 1 rows before the first one inserted takes the count to
\* max_devices + 1.
C3_StaleReadStillInserts ==
  [][\A p \in Procs :
       (/\ Decides(p)
        /\ ~ \E r \in BagToSet(dispositivos[p]) : r.device_id = req[p].device_id
        /\ BagCardinality(dispositivos[p]) < maxDevicesOf(config[p]))
       => \/ /\ lastCall' = Response(req[p], 200, "Dispositivo registrado")
             /\ RowCountIn(devices', req[p].customer_id) = RowCountIn(devices, req[p].customer_id) + 1
          \/ /\ lastCall' = Response(req[p], 500, "Erro ao registrar dispositivo")
             /\ devices' = devices]_vars

\* Two calls with distinct new devices read max_devices - 1 rows; the first has
\* inserted and the customer is at the limit; the second is about to insert.
C3_Witness ==
  \E p \in Procs :
    /\ pc[p] = "write"
    /\ config[p] = settings
    /\ BagCardinality(dispositivos[p]) = maxDevicesOf(config[p]) - 1
    /\ RowCountIn(devices, req[p].customer_id) = maxDevicesOf(config[p])
    /\ Cardinality(RegisteredIn(devices, req[p].customer_id)) = maxDevicesOf(config[p])
    /\ req[p].device_id \notin RegisteredIn(devices, req[p].customer_id)
    /\ lastCall.status = 200
    /\ lastCall.text = "Dispositivo registrado"
    /\ lastCall.customer_id = req[p].customer_id
    /\ lastCall.device_id # req[p].device_id
    /\ ~ \E r \in BagToSet(dispositivos[p]) : r.device_id = lastCall.device_id

\* C4: a call whose pair was among the rows it read ends with 200 'Dispositivo
\* já registrado', whatever the count and the limit are, and leaves the
\* customer's number of rows as it was.
C4_RegisteredAlwaysAllowed ==
  [][\A p \in Procs :
       (/\ Decides(p)
        /\ \E r \in BagToSet(dispositivos[p]) : r.device_id = req[p].device_id)
       => /\ lastCall' = Response(req[p], 200, "Dispositivo já registrado")
          /\ RowCountIn(devices', req[p].customer_id) = RowCountIn(devices, req[p].customer_id)]_vars

\* A registered device was just allowed while the customer is over the limit.
C4_Witness ==
  /\ lastCall.status = 200
  /\ lastCall.text = "Dispositivo já registrado"
  /\ RowCountIn(devices, lastCall.customer_id) > maxDevicesOf(settings)

\* C5: calls one at a time, no failure: when a call registers a new pair with
\* 'Dispositivo registrado' and the next call is for the same pair, that call
\* ends with 200 'Dispositivo já registrado' and the table holds one row of the pair.
C5_SecondCallAlreadyRegistered ==
  (/\ hist[1].status = 200
   /\ hist[1].text = "Dispositivo registrado"
   /\ hist[2].customer_id = hist[1].customer_id
   /\ hist[2].device_id = hist[1].device_id)
  => /\ hist[2].status = 200
     /\ hist[2].text = "Dispositivo já registrado"
     /\ BagCardinality(RowsOfPair(devices, hist[1].customer_id, hist[1].device_id)) = 1

\* A pair was registered and then submitted again.
C5_Witness ==
  /\ hist[1].status = 200
  /\ hist[1].text = "Dispositivo registrado"
  /\ hist[2] = [hist[1] EXCEPT !.text = "Dispositivo já registrado"]

\* C6: in every reachable state the devices table holds at most one row per
\* (customer_id, device_id) pair.
C6_OneRowPerPair ==
  \A r \in BagToSet(devices) :
    BagCardinality(RowsOfPair(devices, r.customer_id, r.device_id)) <= 1

\* C7: a call whose customer_id or device_id is missing or empty never gets to
\* the settings read, and is answered 400 with both tables unchanged.
C7_InvalidRejectedFirst ==
  /\ [](\A p \in Procs :
          pc[p] # "idle" => ~ (Falsy(req[p].customer_id) \/ Falsy(req[p].device_id)))
  /\ [][(lastCall' # NoCall /\ (Falsy(lastCall'.customer_id) \/ Falsy(lastCall'.device_id)))
          => /\ lastCall'.status = 400
             /\ lastCall'.text = "Faltando customer_id ou device_id"
             /\ devices' = devices
             /\ settings' = settings]_vars

\* C8: calls one at a time, no failure, the settings posted between calls: every
\* call decides on the settings row the table holds when it runs: a registered
\* pair is allowed, a new device is denied with the row's message when the
\* customer's rows reach the row's limit, and is registered otherwise.
C8_DecidesOnCurrentSettings ==
  [][\A p \in Procs :
       Decides(p) =>
         LET c == req[p].customer_id
             d == req[p].device_id
         IN  IF d \in RegisteredIn(devices, c)
               THEN lastCall' = Response(req[p], 200, "Dispositivo já registrado")
               ELSE IF RowCountIn(devices, c) >= maxDevicesOf(settings)
                 THEN /\ lastCall' = Response(req[p], 403, blockMessageOf(settings))
                      /\ devices' = devices
                 ELSE /\ lastCall' = Response(req[p], 200, "Dispositivo registrado")
                      /\ d \in RegisteredIn(devices', c)]_vars

\* cust_1 holds dA and dB; dC was denied with the configured message under
\* limit 2 and, the limit raised to 3, the next call registered it.
C8_Witness ==
  /\ hist[1] = [customer_id |-> "cust_1", device_id |-> "dC", status |-> 403,
                text |-> ConfiguredMessage]
  /\ hist[2] = [customer_id |-> "cust_1", device_id |-> "dC", status |-> 200,
                text |-> "Dispositivo registrado"]
  /\ settings # <<>>
  /\ settings[1].max_devices = 3
  /\ RegisteredIn(devices, "cust_1") = {"dA", "dB", "dC"}

\* C9: with no settings row, calls one at a time and no failure, a new device
\* is registered while the customer has fewer than 2 rows and is denied with
\* 403 and the text 'Limite de dispositivos atingido.' once it has 2.
C9_DefaultLimitAndMessage ==
  [][\A p \in Procs :
       (Decides(p) /\ settings = <<>>) =>
         LET c == req[p].customer_id
             d == req[p].device_id
             known == RegisteredIn(devices, c)
         IN  d \notin known =>
               IF Cardinality(known) < 2
                 THEN /\ lastCall' = Response(req[p], 200, "Dispositivo registrado")
                      /\ RegisteredIn(devices', c) = known \cup {d}
                 ELSE /\ lastCall' = Response(req[p], 403, "Limite de dispositivos atingido.")
                      /\ devices' = devices]_vars

\* With no settings row, the third distinct device was just denied.
C9_Witness ==
  /\ settings = <<>>
  /\ lastCall.status = 403
  /\ lastCall.text = "Limite de dispositivos atingido."
  /\ Cardinality(RegisteredIn(devices, lastCall.customer_id)) = 2
  /\ lastCall.device_id \notin RegisteredIn(devices, lastCall.customer_id)

\* C10: every step inserts at most one device row, deletes none, changes at
\* most the last_seen of one row, that of the responding call's pair, and a
\* denied or invalid call leaves the table unchanged.
C10_OneRowPerCall ==
  [][LET added == devices' (-) devices
         removed == devices (-) devices'
     IN  /\ BagCardinality(added) <= 1
         /\ BagCardinality(removed) <= BagCardinality(added)
         /\ \A r \in BagToSet(removed) : \A a \in BagToSet(added) :
              /\ a.customer_id = r.customer_id /\ a.device_id = r.device_id
              /\ a.customer_id = lastCall'.customer_id /\ a.device_id = lastCall'.device_id
         /\ lastCall'.status \in {400, 403} => devices' = devices]_vars

\* C11: a settings query that throws does not end the call: the call goes on
\* to the devices query with no response sent and with max_devices 2 and the
\* text 'Limite de dispositivos atingido.', and a call holding no settings row
\* decides from the device rows it read alone: already registered, denied with
\* that text at 2 rows or more, registered (or 500 on a failed INSERT) below 2.
C11_SettingsFailureFallsBack ==
  /\ [][logged' = "Error fetching settings:" =>
          \E p \in Procs :
            /\ pc[p] = "settings"
            /\ pc'[p] = "devices"
            /\ lastCall' = NoCall
            /\ maxDevicesOf(config'[p]) = 2
            /\ blockMessageOf(config'[p]) = "Limite de dispositivos atingido."]_vars
  /\ [][\A p \in Procs :
          (Decides(p) /\ config[p] = <<>>) =>
            LET d == req[p].device_id
                known == {r.device_id : r \in BagToSet(dispositivos[p])}
                n == BagCardinality(dispositivos[p])
            IN  IF d \in known
                  THEN lastCall' = Response(req[p], 200, "Dispositivo já registrado")
                  ELSE IF n >= 2
                    THEN /\ lastCall' = Response(req[p], 403, "Limite de dispositivos atingido.")
                         /\ devices' = devices
                    ELSE \/ lastCall' = Response(req[p], 200, "Dispositivo registrado")
                         \/ lastCall' = Response(req[p], 500, "Erro ao registrar dispositivo")]_vars

\* The settings query just threw while a row with max_devices 1 is stored: the
\* call is at its devices query and holds no settings row.
C11_Witness ==
  /\ logged = "Error fetching settings:"
  /\ settings # <<>>
  /\ settings[1].max_devices = 1
  /\ \E p \in Procs : pc[p] = "devices" /\ config[p] = <<>> /\ Alone(p)

\* C12: a devices query or an INSERT that throws ends the call with status
\* 500, never 200 or 403, and leaves the devices table as it was.
C12_ReadOrInsertFailureIs500 ==
  [][\A p \in Procs :
       (pc[p] # "idle" /\ pc'[p] = "idle"
          /\ logged' \in {"Error fetching devices:", "Error registering device:"}) =>
         /\ lastCall' = Response(req[p], 500,
                                 IF logged' = "Error fetching devices:"
                                   THEN "Erro ao verificar dispositivos"
                                   ELSE "Erro ao registrar dispositivo")
         /\ devices' = devices]_vars
    /\ [][logged' \in {"Error fetching devices:", "Error registering device:"} =>
            \E p \in Procs : pc[p] \in {"devices", "write"} /\ pc'[p] = "idle"]_vars

\* The INSERT of a new device just threw: 500 was sent and the device is not
\* in the table.
C12_Witness ==
  /\ logged = "Error registering device:"
  /\ lastCall.status = 500
  /\ lastCall.text = "Erro ao registrar dispositivo"
  /\ lastCall.device_id \notin RegisteredIn(devices, lastCall.customer_id)

\* C13: an UPDATE of last_seen that throws still ends the call with 200
\* 'Dispositivo já registrado' and leaves the devices table, last_seen
\* included, as it was.
C13_RefreshFailureStillAllowed ==
  [][logged' = "Error updating device last_seen:" =>
       \E p \in Procs :
         /\ Decides(p)
         /\ req[p].device_id \in RegisteredIn(devices, req[p].customer_id)
         /\ lastCall' = Response(req[p], 200, "Dispositivo já registrado")
         /\ devices' = devices]_vars

\* The UPDATE just threw for a device whose row still carries an older
\* last_seen than the clock.
C13_Witness ==
  /\ logged = "Error updating device last_seen:"
  /\ lastCall.status = 200
  /\ lastCall.text = "Dispositivo já registrado"
  /\ \E r \in BagToSet(devices) :
       /\ r.customer_id = lastCall.customer_id
       /\ r.device_id = lastCall.device_id
       /\ r.last_seen < clock

\* C14: the stored max_devices is a positive integer, and a call that read a
\* settings row compares the count against the max_devices of that row.
C14_StoredLimitPositive ==
  /\ settings # <<>> => settings[1].max_devices > 0
  /\ \A p \in Procs :
       config[p] # <<>> => maxDevicesOf(config[p]) = config[p][1].max_devices

\* C15: the settings table never has more than one row; a POST answered 200
\* leaves exactly its two values as the row, nothing else changes the table,
\* and a GET answered 200 returns the row, or max_devices 2 and the text
\* 'Você está logado em muitos dispositivos.' when there is none.
C15_SettingsRoundTrip ==
  /\ [](Len(settings) <= 1)
  /\ [][(lastSettings'.op = "POST" /\ lastSettings'.status = 200) =>
          settings' = <<[max_devices |-> lastSettings'.max_devices,
                         block_message |-> lastSettings'.block_message]>>]_vars
  /\ [][settings' # settings =>
          (lastSettings'.op = "POST" /\ lastSettings'.status = 200)]_vars
  /\ [][(lastSettings'.op = "GET" /\ lastSettings'.status = 200) =>
          /\ settings' = settings
          /\ IF settings = <<>>
               THEN /\ lastSettings'.max_devices = 2
                    /\ lastSettings'.block_message = "Você está logado em muitos dispositivos."
               ELSE /\ lastSettings'.max_devices = settings[1].max_devices
                    /\ lastSettings'.block_message = settings[1].block_message]_vars

\* A GET has just returned max_devices 3 and the configured text, the row a
\* POST left.
C15_Witness ==
  /\ lastSettings.op = "GET"
  /\ lastSettings.status = 200
  /\ lastSettings.max_devices = 3
  /\ lastSettings.block_message = ConfiguredMessage
  /\ settings = <<[max_devices |-> 3, block_message |-> ConfiguredMessage]>>

\* C20: with no settings row, the block_message a GET /api/settings returns is
\* the text of the last denial device-check sent, and the max_devices it
\* returns is 2, the count at which that denial was sent.
C20_SameDefaults ==
  (/\ settings = <<>>
   /\ lastSettings.op = "GET"
   /\ lastSettings.status = 200
   /\ hist[2].status = 403) =>
     /\ lastSettings.block_message = hist[2].text
     /\ lastSettings.max_devices = 2
     /\ Cardinality(RegisteredIn(devices, hist[2].customer_id)) = 2

\* What every initDbConnection chain keeps to: retryCount never passes
\* MAX_RETRIES, so a chain makes at most 1 + MAX_RETRIES attempts; the wait
\* before retry k lasts RETRY_DELAY_MS * k and retry k follows retry k - 1; a
\* chain returns only from a test query that succeeded, with isConnected true
\* and 'connected' emitted in the same step.
ChainDiscipline ==
  /\ [](\A c \in Chains :
          /\ chains[c].retryCount \in 0..MAX_RETRIES
          /\ chains[c].pc = "wait" =>
               /\ chains[c].retryCount < MAX_RETRIES
               /\ chains[c].delay = RETRY_DELAY_MS * (chains[c].retryCount + 1))
  /\ [][\A c \in Chains :
          /\ (chains[c].pc = "wait" /\ chains'[c].pc # "wait") =>
               /\ chains'[c].pc = "query"
               /\ chains'[c].retryCount = chains[c].retryCount + 1
          /\ (chains[c].pc = "query" /\ chains'[c].pc = "wait") =>
               chains'[c].retryCount = chains[c].retryCount
          /\ (chains[c].pc \in {"query", "wait"} /\ chains'[c].pc = "free") =>
               /\ chains[c].pc = "query"
               /\ isConnected'
               /\ emitted' = "connected"]_vars

\* Every chain in progress ends: it returns, or the process exits.
ChainTerminates ==
  \A c \in Chains :
    (chains[c].pc \in {"start", "query", "wait"}) ~> (chains[c].pc = "free" \/ exited)

\* C16 as stated: every chain terminates within 1 + MAX_RETRIES attempts with
\* the waits RETRY_DELAY_MS * k, returns only connected, and the process exits
\* only when the attempt with retryCount = MAX_RETRIES has failed.
C16_ExitOnlyAfterLastAttempt ==
  /\ ChainDiscipline
  /\ [][(exited' /\ ~exited) =>
          \E c \in Chains : chains[c].pc = "query" /\ chains[c].retryCount = MAX_RETRIES]_vars

\* C16, amended: every chain terminates within 1 + MAX_RETRIES attempts with
\* the waits RETRY_DELAY_MS * k and returns only connected; the process exits
\* when the attempt with retryCount = MAX_RETRIES has failed, or at once and
\* before any attempt when DATABASE_URL is not set.
C16_TerminatesConnectedOrExit ==
  /\ ChainDiscipline
  /\ ChainTerminates
  /\ [][(exited' /\ ~exited) =>
          \/ \E c \in Chains : chains[c].pc = "query" /\ chains[c].retryCount = MAX_RETRIES
          \/ ~hasUrl /\ InProgress = {}]_vars

\* The process has exited on the sixth failed attempt of a chain.
C16_Witness ==
  /\ exited
  /\ hasUrl
  /\ ~isConnected
  /\ \E c \in Chains : chains[c].pc = "query" /\ chains[c].retryCount = MAX_RETRIES

\* C17: a connection error leaves isConnected false with 'disconnected'
\* emitted and a timer pending, whose callback starts a chain unless
\* isConnected is true; a disconnected state leads to isConnected or to the
\* exit of the process; and isConnected is true only while the most recent
\* connection test succeeded and no connection error came since.
C17_ConnectedOnlyAfterGoodTest ==
  /\ [](isConnected => lastTestOk)
  /\ [][emitted' = "disconnected" => (~isConnected' /\ timers' = timers + 1)]_vars
  /\ [][(timers' < timers /\ ~isConnected) =>
          \E c \in Chains : chains[c].pc = "free" /\ chains'[c].pc = "query"
                              /\ chains'[c].retryCount = 0]_vars
  /\ (~isConnected) ~> (isConnected \/ exited)

\* C18: at most one initDbConnection chain is in progress.
C18_OneChainAtATime == Cardinality(InProgress) <= 1

\* C19: a health request is answered once: 503 'unhealthy' at once when
\* disconnected and no reconnect is asked; 'recovered' or 503 'unhealthy' when
\* the reconnection it awaits ends with or without isConnected; 200 'healthy'
\* or 503 'unhealthy' when its test query resolves or rejects.
C19_OneResponsePerHealthRequest ==
  [][/\ (health = "idle" /\ health' = "idle" /\ lastHealth' # NoHealth) =>
          /\ ~isConnected
          /\ chains' = chains
          /\ lastHealth' = [status |-> 503, state |-> "unhealthy", database |-> "disconnected"]
     /\ (health = "idle" /\ health' = "query") => (isConnected /\ lastHealth' = NoHealth)
     /\ (health = "idle" /\ health' = "reconnect") => (~isConnected /\ lastHealth' = NoHealth)
     /\ (health = "query" /\ lastHealth' # NoHealth) =>
          /\ health' = "idle"
          /\ lastHealth' \in {[status |-> 200, state |-> "healthy", database |-> "connected"],
                              [status |-> 503, state |-> "unhealthy", database |-> "error"]}
     /\ (health = "reconnect" /\ (health' # "reconnect" \/ exited')) =>
          /\ health' = "idle"
          /\ lastHealth' = IF isConnected'
                             THEN [status |-> 200, state |-> "recovered",
                                   database |-> "reconnected"]
                             ELSE [status |-> 503, state |-> "unhealthy",
                                   database |-> "disconnected"]
     /\ lastHealth' # NoHealth => (health' = "idle" /\ ~exited')]_vars

\* The hrefs of the links appended to document.head.
HeadHrefs == {head[i].href : i \in 1..Len(head)}

\* The href the call just made asked for ("" when it asked for none).
CalledHref ==
  IF cssCall'.fn = "loadCSS" THEN cssCall'.href
  ELSE IF cssCall'.fn = "loadDynamicCSS" /\ cssCall'.given /\ Len(cssCall'.list) > 0
    THEN CacheKey(cssCall'.list)
    ELSE ""

\* C21: document.head never holds two links with the same href; a call for an
\* href already appended appends nothing and a call for a new href appends
\* exactly one link, with media 'print'; a link has media 'all' only once its
\* load event has fired, and its media changes only in that step; and
\* loadDynamicCSS with a missing or empty list appends nothing.
C21_OneLinkPerHref ==
  /\ [](/\ \A i, j \in 1..Len(head) : head[i].href = head[j].href => i = j
        /\ \A i \in 1..Len(head) :
             /\ head[i].media \in {"print", "all"}
             /\ head[i].media = "all" => head[i].loaded)
  /\ [][cssCall'.fn # "" =>
          IF CalledHref = "" \/ CalledHref \in HeadHrefs
            THEN head' = head
            ELSE head' = Append(head, [href |-> CalledHref, media |-> "print",
                                       loaded |-> FALSE])]_vars
  /\ [][\A i \in 1..Len(head) :
          /\ Len(head') >= Len(head)
          /\ head'[i].href = head[i].href
          /\ head'[i].media # head[i].media =>
               /\ head[i].media = "print"
               /\ head'[i].media = "all"
               /\ ~head[i].loaded
               /\ head'[i].loaded]_vars
  /\ [][(cssCall'.fn = "loadDynamicCSS" /\ (~cssCall'.given \/ cssCall'.list = <<>>)) =>
          head' = head]_vars

\* loadCSS was just called for the href of the first link, which has loaded
\* and switched to 'all' while a later link is still 'print': the call
\* appended nothing.
C21_Witness ==
  /\ cssCall.fn = "loadCSS"
  /\ Len(head) = 2
  /\ head[1].href = cssCall.href
  /\ head[1].media = "all"
  /\ head[2].media = "print"
  /\ head[2].href = CacheKey(<<".a", ".b">>)

============================================================================
